---- MODULE Spec2Model ----
(***************************************************************************)
(* Intent governance layer: the tool hooks (audit and policy stage), the  *)
(* human confirmation gate of the interactive loop, and the judge and     *)
(* escalation side.                                                        *)
(*                                                                         *)
(*   Spec            the constitution hook called on a policy file that   *)
(*                   is edited between calls (hooks/constitution_hook.py) *)
(*   ChainSpec       calls through tool_hooks = [logger_hook,             *)
(*                   constitution_hook] on such a policy file             *)
(*   CondSpec        _evaluate_condition on its inputs                    *)
(*   GateSpec        one turn of main(): agent.run, handle_confirmation,  *)
(*                   continue_run (main.py)                               *)
(*   GovernorSpec    IntentGovernor: construction, wrap,                  *)
(*                   evaluate_response (governor.py)                      *)
(*   EscalationSpec  SlackEscalationHook (evals/judge_eval.py)            *)
(*   ReloadSpec      one hook called again and again while the policy     *)
(*                   file is rewritten                                     *)
(*   FieldsSpec      the constitution hook on rules that leave out their  *)
(*                   condition or action                                   *)
(*   IntentSpec      the dynamic-instruction retriever                    *)
(*                   (intent/retriever.py)                                 *)
(***************************************************************************)
EXTENDS Integers, Sequences, FiniteSets, TLC

\* ------------------------------------------------------------------ bounds

\* longest rule list of one action name in the policy file
MaxRules == 2

\* most confirmation requirements one paused run carries
MaxReqs == 3

\* ------------------------------------------------------- program constants

\* `threshold or 100` in the high_value condition
DefaultHighValue == 100

\* `threshold or 730` in the high_tenure condition
DefaultHighTenure == 730

\* ------------------------------------------------------------ value domains

\* Python's None for an Optional[float]
None == [some |-> FALSE, v |-> 0]

Some(x) == [some |-> TRUE, v |-> x]

\* dict.get(key, default) on a dict modelled as a function
Get(d, k, default) == IF k \in DOMAIN d THEN d[k] ELSE default

\* the empty dict
EmptyDict == [k \in {} |-> 0]

\* Python values an amount argument can be: a number, a string, None
Num(n) == [py |-> "number", n |-> n]

Str(s) == [py |-> "str", s |-> s]

PyNone == [py |-> "NoneType"]

Conditions == {"any", "high_value", "high_tenure", "vip"}

RuleActions == {"approve", "reject", "escalate", "notify"}

\* the reason text of the rule written at position i of a list
ReasonAt(i) == <<"reason", i>>

\* what a rule of the policy file says besides its reason
RuleShapes ==
    [condition : Conditions, action : RuleActions]
    \cup [condition : {"high_value"}, action : RuleActions, threshold : {20}]

WithReason(shape, i) ==
    [k \in DOMAIN shape \cup {"reason"} |->
        IF k = "reason" THEN ReasonAt(i) ELSE shape[k]]

\* the action name the policy file lists rules for, and one it never lists
GovernedName == "stripe_refund"

FunctionNames == {"stripe_refund", "unknown_tool"}

Tiers == {"standard", "enterprise"}

SessionStates ==
    { [k \in ks |-> IF k = "customer_tier" THEN t ELSE d] :
        ks \in SUBSET {"customer_tier", "customer_tenure_days"},
        t \in Tiers, d \in {800} }

\* run_context.session_state: None, or a dict
NoSessionState == [absent |-> TRUE]

GivenSessionState(d) == [absent |-> FALSE, state |-> d]

RunContextStates ==
    {NoSessionState} \cup { GivenSessionState(d) : d \in SessionStates }

ArgumentSets ==
    { [k \in ks |-> IF k = "amount" THEN Num(a) ELSE Str("C-1")] :
        ks \in {{"customer_id"}, {"customer_id", "amount"}},
        a \in {50, 500} }

\* ---------------------------------------------------------------- variables

VARIABLES
    constitution_file,  \* the content of the file at constitution_path
    inv,                \* the last call of intent_constitution_hook
    pc,                 \* main(): where the current turn stands
    run_response,       \* main(): the run response the turn holds
    todo,               \* handle_confirmation: requirements the loop has yet to visit
    gate,               \* the turn's record: answers given, executions, resumes
    chain,              \* the last call through the tool-hook chain, with its audit log
    esc,                \* the last call of a SlackEscalationHook
    gov,                \* the IntentGovernor, the agent it wraps, the last evaluation
    cond,               \* the last call of _evaluate_condition
    intent              \* the last call of an intent retriever

vars == <<constitution_file, inv, pc, run_response, todo, gate, chain, esc, gov, cond, intent>>

hookVars == <<constitution_file, inv>>

gateVars == <<pc, run_response, todo, gate>>

judgeVars == <<esc, gov>>

\* what the direct hook calls and the policy edits leave alone
besideHook == <<gateVars, judgeVars, cond, intent>>

\* what the interactive loop leaves alone
besideGate == <<hookVars, chain, judgeVars, cond, intent>>

NoChain == [active |-> FALSE]

NoEsc == [active |-> FALSE]

NoCond == [active |-> FALSE]

NoIntent == [active |-> FALSE]

\* ------------------------------------------- inputs of _evaluate_condition

\* the threshold a rule gives: none, or a number
Thresholds == {None, Some(0), Some(20), Some(100), Some(1000)}

\* argument mappings by what they hold under "amount"
AmountArguments ==
    {EmptyDict} \cup
    { [k \in {"amount"} |-> a] :
        a \in {Num(0), Num(50), Num(500), Str("500"), Str("n/a"), PyNone} }

\* session states by what they hold under "customer_tenure_days"
TenureStates ==
    {EmptyDict} \cup { [k \in {"customer_tenure_days"} |-> d] : d \in {0, 100, 800} }

\* ------------------------------------------------------------ policy file

\* contents the file at constitution_path can have: missing or unreadable,
\* not YAML, empty, YAML that is no mapping, or a mapping of action names to
\* rule lists
Unreadable == [kind |-> "unreadable", doc |-> EmptyDict]

Malformed == [kind |-> "malformed", doc |-> EmptyDict]

EmptyFile == [kind |-> "empty", doc |-> EmptyDict]

NotMapping == [kind |-> "scalar", doc |-> EmptyDict]

Mapping(rules) == [kind |-> "mapping", doc |-> [n \in {GovernedName} |-> rules]]

\* ---------------------------------------------------- constitution_hook.py

\* variant: what yaml.safe_load gives for an empty file is returned as it is
load_constitution_EmptyIsNone(file) ==
    CASE file.kind = "unreadable" ->
            [raised |-> TRUE, error |-> "OSError", value |-> EmptyDict, isdict |-> FALSE]
      [] file.kind = "malformed" ->
            [raised |-> TRUE, error |-> "YAMLError", value |-> EmptyDict, isdict |-> FALSE]
      [] file.kind \in {"empty", "scalar"} ->
            [raised |-> FALSE, error |-> "", value |-> EmptyDict, isdict |-> FALSE]
      [] OTHER ->
            [raised |-> FALSE, error |-> "", value |-> file.doc, isdict |-> TRUE]

\* variant: a file that cannot be read or parsed is taken as an empty policy
load_constitution_FailOpen(file) ==
    IF file.kind = "mapping"
    THEN [raised |-> FALSE, error |-> "", value |-> file.doc, isdict |-> TRUE]
    ELSE [raised |-> FALSE, error |-> "", value |-> EmptyDict, isdict |-> TRUE]

\* with open(path) as fh: return yaml.safe_load(fh) or {}
load_constitution(file) ==
    CASE file.kind = "unreadable" ->
            [raised |-> TRUE, error |-> "OSError", value |-> EmptyDict, isdict |-> FALSE]
      [] file.kind = "malformed" ->
            [raised |-> TRUE, error |-> "YAMLError", value |-> EmptyDict, isdict |-> FALSE]
      [] file.kind = "empty" ->
            [raised |-> FALSE, error |-> "", value |-> EmptyDict, isdict |-> TRUE]
      [] file.kind = "scalar" ->
            [raised |-> FALSE, error |-> "", value |-> EmptyDict, isdict |-> FALSE]
      [] OTHER ->
            [raised |-> FALSE, error |-> "", value |-> file.doc, isdict |-> TRUE]

\* `threshold or default`: None and 0 are both falsy
OrDefault(threshold, default) ==
    IF threshold.some /\ threshold.v # 0 THEN threshold.v ELSE default

\* float(x): the number itself, the number a string spells, or an exception
\* (ValueError for other strings, TypeError for None)
to_float(x) ==
    CASE x.py = "number" -> Some(x.n)
      [] x.py = "str" /\ x.s = "500" -> Some(500)
      [] OTHER -> None

\* lines 44-48: the amount argument as a number, 0 when absent or when
\* float() raises
amount_of(arguments) ==
    LET f == to_float(Get(arguments, "amount", Num(0)))
    IN  IF f.some THEN f.v ELSE 0

\* variant: a condition name that is not known counts as met
evaluate_condition_UnknownMatches(condition, session_state, arguments, threshold) ==
    CASE condition = "high_value" ->
            amount_of(arguments) >= OrDefault(threshold, DefaultHighValue)
      [] condition = "high_tenure" ->
            Get(session_state, "customer_tenure_days", 0)
                >= OrDefault(threshold, DefaultHighTenure)
      [] OTHER -> TRUE

evaluate_condition(condition, session_state, arguments, threshold) ==
    CASE condition = "any" -> TRUE
      [] condition = "high_value" ->
            amount_of(arguments) >= OrDefault(threshold, DefaultHighValue)
      [] condition = "high_tenure" ->
            Get(session_state, "customer_tenure_days", 0)
                >= OrDefault(threshold, DefaultHighTenure)
      [] OTHER -> FALSE

\* one evaluation of a rule's condition
EvaluateCondition ==
    /\ \E condition \in Conditions, session_state \in TenureStates,
          arguments \in AmountArguments, threshold \in Thresholds :
        cond' = [active |-> TRUE, condition |-> condition,
                 session_state |-> session_state, arguments |-> arguments,
                 threshold |-> threshold,
                 matched |-> evaluate_condition(condition, session_state,
                                                arguments, threshold)]
    /\ UNCHANGED <<hookVars, gateVars, chain, judgeVars, intent>>

\* variant: an action name the policy does not list is denied
RulesFor_FailClosed(constitution, function_name) ==
    Get(constitution, function_name,
        <<[condition |-> "any", action |-> "reject", reason |-> ReasonAt(0)]>>)

\* constitution.get(function_name, [])
RulesFor(constitution, function_name) == Get(constitution, function_name, <<>>)

\* variant: a matched rule with any other action blocks the call
MatchedRule_UnknownBlocks(action, customer_tier) ==
    IF action = "reject" /\ customer_tier # "enterprise" THEN "raise_block"
    ELSE IF action = "escalate" THEN "raise_escalation"
    ELSE IF action = "approve" THEN "break"
    ELSE "raise_block"

\* variant: a matched escalate rule is logged and passed over
MatchedRule_EscalateIgnored(action, customer_tier) ==
    IF action = "reject" /\ customer_tier # "enterprise" THEN "raise_block"
    ELSE IF action = "approve" THEN "break"
    ELSE "next"

\* variant: a matched approve rule does not end the loop
MatchedRule_ApproveFallsThrough(action, customer_tier) ==
    IF action = "reject" /\ customer_tier # "enterprise" THEN "raise_block"
    ELSE IF action = "escalate" THEN "raise_escalation"
    ELSE "next"

\* what a matched rule does: lines 94-116 of the loop body
MatchedRule(action, customer_tier) ==
    IF action = "reject" /\ customer_tier # "enterprise" THEN "raise_block"
    ELSE IF action = "escalate" THEN "raise_escalation"
    ELSE IF action = "approve" THEN "break"
    ELSE "next"

\* the ValueError texts of lines 99-101 and 108-110
BlockText(function_name, reason) ==
    <<"[Intent Block] ", function_name, " denied: ", reason>>

EscalationText(function_name, reason) ==
    <<"[Intent Escalation] ", function_name, " requires human review: ", reason>>

NoText == <<>>

\* for rule in rules: ... from rule i on; how the loop is left
RECURSIVE RuleLoop(_, _, _, _, _, _)
RuleLoop(rules, i, function_name, session_state, customer_tier, arguments) ==
    IF i > Len(rules) THEN [exit |-> "exhausted", rule |-> 0, text |-> NoText]
    ELSE
        LET rule == rules[i]
            condition == Get(rule, "condition", "any")
            action == Get(rule, "action", "approve")
            reason == Get(rule, "reason", "")
            threshold == IF "threshold" \in DOMAIN rule THEN Some(rule.threshold) ELSE None
            matched == evaluate_condition(condition, session_state, arguments, threshold)
            todo_ == IF matched THEN MatchedRule(action, customer_tier) ELSE "next"
        IN  CASE todo_ = "raise_block" ->
                    [exit |-> "raise", rule |-> i, text |-> BlockText(function_name, reason)]
              [] todo_ = "raise_escalation" ->
                    [exit |-> "raise", rule |-> i,
                     text |-> EscalationText(function_name, reason)]
              [] todo_ = "break" -> [exit |-> "break", rule |-> i, text |-> NoText]
              [] OTHER ->
                    RuleLoop(rules, i + 1, function_name, session_state,
                             customer_tier, arguments)

\* session_state = run_context.session_state or {}
session_state_or_empty(given) == IF given.absent THEN EmptyDict ELSE given.state

\* variant: a caller whose session names no tier counts as enterprise
customer_tier_of_DefaultEnterprise(session_state) ==
    Get(session_state, "customer_tier", "enterprise")

\* customer_tier = session_state.get("customer_tier", "standard")
customer_tier_of(session_state) == Get(session_state, "customer_tier", "standard")

\* what the governed action returns when function_call(**arguments) runs
function_call(function_name, arguments) == [tool |-> function_name, args |-> arguments]

NoResult == [tool |-> "", args |-> EmptyDict]

\* intent_constitution_hook(run_context, function_name, function_call, arguments):
\*   raised   whether the call ended in an exception
\*   error    the exception's type, text its message
\*   rule     the index of the rule the loop was left at (0: none)
\*   calls    how often function_call was invoked, result what was returned
intent_constitution_hook(file, session_state, function_name, arguments) ==
    LET loaded == load_constitution(file)
    IN  IF loaded.raised THEN
            [raised |-> TRUE, error |-> loaded.error, text |-> NoText, rule |-> 0,
             calls |-> 0, result |-> NoResult]
        ELSE IF ~loaded.isdict THEN
            [raised |-> TRUE, error |-> "AttributeError", text |-> NoText, rule |-> 0,
             calls |-> 0, result |-> NoResult]
        ELSE
            LET rules == RulesFor(loaded.value, function_name)
                customer_tier == customer_tier_of(session_state)
                left == RuleLoop(rules, 1, function_name, session_state,
                                 customer_tier, arguments)
            IN  IF left.exit = "raise" THEN
                    [raised |-> TRUE, error |-> "ValueError", text |-> left.text,
                     rule |-> left.rule, calls |-> 0, result |-> NoResult]
                ELSE
                    [raised |-> FALSE, error |-> "", text |-> NoText,
                     rule |-> left.rule, calls |-> 1,
                     result |-> function_call(function_name, arguments)]

\* ------------------------------------------------- the hook under test

NoInv == [active |-> FALSE]

\* the rule list the file gives GovernedName (the file is a mapping)
FileRules == constitution_file.doc[GovernedName]

\* one call of the hook, as the tool-hook chain or a test makes it: the
\* policy file is read at the time of the call
HookCall ==
    /\ \E function_name \in FunctionNames, given \in RunContextStates,
          arguments \in ArgumentSets :
        LET session_state == session_state_or_empty(given)
        IN  inv' = [active |-> TRUE,
                    function_name |-> function_name,
                    run_context |-> given,
                    session_state |-> session_state,
                    arguments |-> arguments,
                    file |-> constitution_file,
                    out |-> intent_constitution_hook(constitution_file, session_state,
                                                     function_name, arguments)]
    /\ UNCHANGED <<constitution_file, chain, besideHook>>

\* the policy file is edited between calls: a rule is added at the end
AppendRule ==
    /\ constitution_file.kind = "mapping"
    /\ Len(FileRules) < MaxRules
    /\ \E shape \in RuleShapes :
            constitution_file' =
                Mapping(Append(FileRules, WithReason(shape, Len(FileRules) + 1)))
    /\ inv' = NoInv
    /\ chain' = NoChain
    /\ UNCHANGED besideHook

\* the last rule is removed
DropRule ==
    /\ constitution_file.kind = "mapping"
    /\ Len(FileRules) > 0
    /\ constitution_file' = Mapping(SubSeq(FileRules, 1, Len(FileRules) - 1))
    /\ inv' = NoInv
    /\ chain' = NoChain
    /\ UNCHANGED besideHook

\* the file is removed, truncated, overwritten with something that is no
\* YAML mapping, or started afresh
ReplaceFile ==
    /\ \E f \in {Unreadable, Malformed, EmptyFile, NotMapping, Mapping(<<>>)} :
            /\ f # constitution_file
            /\ constitution_file' = f
    /\ inv' = NoInv
    /\ chain' = NoChain
    /\ UNCHANGED besideHook

\* ------------------------------------- one hook across changes of the file

\* contents the policy file is given over time
PolicyVersions ==
    {Mapping(<<>>), EmptyFile, Malformed}
    \cup { Mapping(<<WithReason([condition |-> "any", action |-> a], 1)>>) :
             a \in {"approve", "reject"} }

\* what the hook returned by create_constitution_hook has read before
NothingRead == [read |-> FALSE]

HasRead(file) == [read |-> TRUE, file |-> file]

\* variant: the policy is read at the hook's first call and kept
constitution_read_Once(file_now, before) ==
    IF before.read THEN before.file ELSE file_now

\* constitution = _load_constitution(constitution_path) at line 78: the
\* closure holds the path only, and every call reads what the file holds then
constitution_read(file_now, before) == file_now

\* a call of the same hook, whatever the file has become since its last call
ReloadCall ==
    /\ \E function_name \in FunctionNames, session_state \in SessionStates,
          arguments \in ArgumentSets :
        LET before == IF inv.active THEN HasRead(inv.first) ELSE NothingRead
            read == constitution_read(constitution_file, before)
        IN  inv' = [active |-> TRUE,
                    function_name |-> function_name,
                    session_state |-> session_state,
                    arguments |-> arguments,
                    file |-> constitution_file,
                    first |-> IF inv.active THEN inv.first ELSE constitution_file,
                    out |-> intent_constitution_hook(read, session_state,
                                                     function_name, arguments)]
    /\ UNCHANGED <<constitution_file, chain, besideHook>>

\* the file is rewritten between two calls of the hook
ReloadEdit ==
    /\ \E f \in PolicyVersions :
            /\ f # constitution_file
            /\ constitution_file' = f
    /\ UNCHANGED <<inv, chain, besideHook>>

\* ------------------------------------ rules that leave out some of their keys

\* rules of the policy file with or without a condition and an action
FieldShapes ==
    { [k \in ks |-> IF k = "condition" THEN c ELSE a] :
        ks \in SUBSET {"condition", "action"},
        c \in {"any", "vip"}, a \in RuleActions }

\* callers of such a policy: no session state, or an enterprise one
FieldsRunContexts ==
    {NoSessionState, GivenSessionState([k \in {"customer_tier"} |-> "enterprise"])}

\* one call of the hook on the file as it is
FieldsCall ==
    /\ constitution_file.kind = "mapping"
    /\ \E function_name \in FunctionNames, given \in FieldsRunContexts,
          arguments \in ArgumentSets :
        LET session_state == session_state_or_empty(given)
        IN  inv' = [active |-> TRUE,
                    function_name |-> function_name,
                    run_context |-> given,
                    session_state |-> session_state,
                    arguments |-> arguments,
                    file |-> constitution_file,
                    out |-> intent_constitution_hook(constitution_file, session_state,
                                                     function_name, arguments)]
    /\ UNCHANGED <<constitution_file, chain, besideHook>>

\* a rule is written at the end of the list
FieldsAppend ==
    /\ constitution_file.kind = "mapping"
    /\ Len(FileRules) < MaxRules
    /\ \E shape \in FieldShapes :
            constitution_file' =
                Mapping(Append(FileRules, WithReason(shape, Len(FileRules) + 1)))
    /\ inv' = NoInv
    /\ UNCHANGED <<chain, besideHook>>

\* the last rule is removed
FieldsDrop ==
    /\ constitution_file.kind = "mapping"
    /\ Len(FileRules) > 0
    /\ constitution_file' = Mapping(SubSeq(FileRules, 1, Len(FileRules) - 1))
    /\ inv' = NoInv
    /\ UNCHANGED <<chain, besideHook>>

\* ------------------------------------------------------ the tool-hook chain

\* the argument names logger_hook redacts, and what it puts in their place
SensitiveKeys == {"password", "token", "secret"}

Redacted == Str("***")

ArgValue(k) ==
    CASE k = "amount" -> Num(500)
      [] k = "customer_id" -> Str("C-1")
      [] k = "password" -> Str("hunter2")
      [] k = "token" -> Str("tok-123")
      [] k = "secret" -> Str("s3cr3t")
      [] OTHER -> Str("call back")

\* argument mappings of the calls through the chain: without a sensitive
\* key, with each one, and with all of them beside an ordinary key
ChainArguments ==
    { [k \in {"customer_id", "amount"} \cup ks |-> ArgValue(k)] :
        ks \in {{}, {"password"}, {"token"}, {"secret"},
                {"password", "token", "secret", "note"}} }

ChainSessionStates ==
    { [k \in {"customer_tier"} |-> t] : t \in Tiers }

\* the dict comprehension of lines 134-137
sanitised_args(arguments) ==
    [k \in DOMAIN arguments |->
        IF k \notin SensitiveKeys THEN arguments[k] ELSE Redacted]

\* what the chain leaves behind, in order: the records logger.info emits and
\* the entries into the stages the hooks call
Event(ev, function_name, arguments) ==
    [ev |-> ev, name |-> function_name, args |-> arguments]

\* the mappings a stage can be handed
StageArguments == ChainArguments \cup { sanitised_args(a) : a \in ChainArguments }

\* the inner stage of the chain wrap() builds: the constitution hook around
\* the governed action, which returns or raises
policy_stage(file, session_state, function_name, arguments, action_raises) ==
    LET out == intent_constitution_hook(file, session_state, function_name, arguments)
        entered == <<Event("policy", function_name, arguments)>>
        called == <<Event("action", function_name, arguments)>>
    IN  IF out.raised THEN
            [raised |-> TRUE, error |-> out.error, text |-> out.text,
             result |-> NoResult, trace |-> entered]
        ELSE IF action_raises THEN
            [raised |-> TRUE, error |-> "ActionError", text |-> NoText,
             result |-> NoResult, trace |-> entered \o called]
        ELSE
            [raised |-> FALSE, error |-> "", text |-> NoText,
             result |-> out.result, trace |-> entered \o called]

\* variant: the end record is written in a finally clause
logger_hook_Finally(function_name, inner, arguments) ==
    LET start == Event("audit_start", function_name, sanitised_args(arguments))
        end == Event("audit_end", function_name, EmptyDict)
        got == inner[arguments]
    IN  [got EXCEPT !.trace = <<start>> \o got.trace \o <<end>>]

\* variant: the start record is written after the inner stage has returned
logger_hook_LateStart(function_name, inner, arguments) ==
    LET start == Event("audit_start", function_name, sanitised_args(arguments))
        end == Event("audit_end", function_name, EmptyDict)
        got == inner[arguments]
    IN  IF got.raised
        THEN [got EXCEPT !.trace = got.trace \o <<start>>]
        ELSE [got EXCEPT !.trace = got.trace \o <<start, end>>]

\* variant: the arguments are logged as they came
logger_hook_Unredacted(function_name, inner, arguments) ==
    LET start == Event("audit_start", function_name, arguments)
        end == Event("audit_end", function_name, EmptyDict)
        got == inner[arguments]
    IN  IF got.raised
        THEN [got EXCEPT !.trace = <<start>> \o got.trace]
        ELSE [got EXCEPT !.trace = <<start>> \o got.trace \o <<end>>]

\* variant: the inner stage is handed the arguments as they are logged
logger_hook_PassesSanitised(function_name, inner, arguments) ==
    LET start == Event("audit_start", function_name, sanitised_args(arguments))
        end == Event("audit_end", function_name, EmptyDict)
        got == inner[sanitised_args(arguments)]
    IN  IF got.raised
        THEN [got EXCEPT !.trace = <<start>> \o got.trace]
        ELSE [got EXCEPT !.trace = <<start>> \o got.trace \o <<end>>]

\* variant: a failed inner call is tried once more
logger_hook_Retries(function_name, inner, arguments) ==
    LET start == Event("audit_start", function_name, sanitised_args(arguments))
        end == Event("audit_end", function_name, EmptyDict)
        got == inner[arguments]
    IN  IF got.raised
        THEN [got EXCEPT !.trace = <<start>> \o got.trace \o got.trace]
        ELSE [got EXCEPT !.trace = <<start>> \o got.trace \o <<end>>]

\* logger_hook(function_name, function_call, arguments); inner[a] is what
\* function_call(**a) does. The start record is logged, the inner stage is
\* called; if it raises, the exception leaves logger_hook at line 145 and
\* nothing more is logged; else the end record is logged and the result
\* returned.
logger_hook(function_name, inner, arguments) ==
    LET start == Event("audit_start", function_name, sanitised_args(arguments))
        end == Event("audit_end", function_name, EmptyDict)
        got == inner[arguments]
    IN  IF got.raised
        THEN [got EXCEPT !.trace = <<start>> \o got.trace]
        ELSE [got EXCEPT !.trace = <<start>> \o got.trace \o <<end>>]

\* tool_hooks = [logger_hook, constitution_hook]: logger outermost,
\* constitution innermost, then the tool
tool_hooks(file, session_state, function_name, arguments, action_raises) ==
    logger_hook(function_name,
                [a \in StageArguments |->
                    policy_stage(file, session_state, function_name, a, action_raises)],
                arguments)

\* one governed tool call through the chain. The chain keeps nothing from one
\* call to the next, so the record of a call stands until the policy file is
\* edited and the next call is recorded after that.
ChainCall ==
    /\ ~chain.active
    /\ \E function_name \in FunctionNames, session_state \in ChainSessionStates,
          arguments \in ChainArguments, action_raises \in BOOLEAN :
            chain' = [active |-> TRUE,
                      function_name |-> function_name,
                      session_state |-> session_state,
                      arguments |-> arguments,
                      action_raises |-> action_raises,
                      policy |-> intent_constitution_hook(constitution_file, session_state,
                                                          function_name, arguments),
                      out |-> tool_hooks(constitution_file, session_state,
                                         function_name, arguments, action_raises)]
    /\ UNCHANGED <<constitution_file, inv, besideHook>>

\* ------------------------------------------------------- evals/judge_eval.py

\* the scale of the judge's numeric score, and the score below which the
\* Slack attachment is coloured red
MaxScore == 10

RedBelow == 5

\* how much of the turn's input the Slack message shows
InputShown == 100

\* a webhook URL as given: None, the empty string, or an address
WebhookArgs == {None, Some(""), Some("https://hooks.slack.test/A")}

EnvValues == {None, Some(""), Some("https://hooks.slack.test/E")}

\* Python truth of an Optional[str]
Truthy(x) == x.some /\ x.v # ""

\* the evaluations the judge hands to on_fail
Inputs == {<<"r", "e", "f", "u", "n", "d">>, <<>>}

EvaluationResults ==
    [score : 0..MaxScore, passed : BOOLEAN, input : Inputs, reason : {"off intent"}]

\* what httpx.post and raise_for_status can do
PostOutcomes == {"ok", "http_error", "timeout", "connect_error"}

\* self.webhook_url = webhook_url or os.getenv("SLACK_WEBHOOK_URL")
SlackEscalationHook_init(webhook_url, env) ==
    IF Truthy(webhook_url) THEN webhook_url ELSE env

\* default_escalation_hook(result): two error log lines and a printed banner
default_escalation_hook(result) == <<[path |-> "local", result |-> result]>>

Truncated(s, n) == SubSeq(s, 1, IF Len(s) < n THEN Len(s) ELSE n)

\* the Slack payload of lines 55-97
payload(result) ==
    [score |-> result.score,
     color |-> IF result.score < RedBelow THEN "#eb4034" ELSE "#fca103",
     passed |-> result.passed,
     input |-> Truncated(result.input, InputShown),
     reason |-> result.reason]

\* variant: a failed POST is only logged
SlackEscalationHook_call_LogOnly(webhook_url, result, post) ==
    IF ~Truthy(webhook_url)
    THEN [raised |-> FALSE, fired |-> default_escalation_hook(result)]
    ELSE IF post = "ok"
    THEN [raised |-> FALSE,
          fired |-> <<[path |-> "webhook", url |-> webhook_url.v, json |-> payload(result)]>>]
    ELSE [raised |-> FALSE, fired |-> <<>>]

\* SlackEscalationHook.__call__(result); post is what the POST does.
\* fired lists the notifications that went out.
SlackEscalationHook_call(webhook_url, result, post) ==
    IF ~Truthy(webhook_url)
    THEN [raised |-> FALSE, fired |-> default_escalation_hook(result)]
    ELSE IF post = "ok"
    THEN [raised |-> FALSE,
          fired |-> <<[path |-> "webhook", url |-> webhook_url.v, json |-> payload(result)]>>]
    ELSE [raised |-> FALSE, fired |-> default_escalation_hook(result)]

\* SlackEscalationHook(webhook_url) with the environment as it is then
NewSlackHook ==
    /\ \E webhook_url \in WebhookArgs, env \in EnvValues :
        esc' = [active |-> TRUE, called |-> FALSE, arg |-> webhook_url, env |-> env,
                webhook_url |-> SlackEscalationHook_init(webhook_url, env)]
    /\ UNCHANGED <<hookVars, gateVars, chain, gov, cond, intent>>

\* hook(result)
Escalate ==
    /\ esc.active
    /\ \E result \in EvaluationResults, post \in PostOutcomes :
        esc' = [active |-> TRUE, called |-> TRUE, arg |-> esc.arg, env |-> esc.env,
                webhook_url |-> esc.webhook_url,
                result |-> result, post |-> post,
                out |-> SlackEscalationHook_call(esc.webhook_url, result, post)]
    /\ UNCHANGED <<hookVars, gateVars, chain, gov, cond, intent>>

\* --------------------------------------------------------- intent/retriever.py

\* DEFAULT_STRATEGIES: org_goal value to instruction suffix
DEFAULT_STRATEGIES ==
    [k \in {"retention", "cost_reduction", "growth"} |->
        CASE k = "retention" -> "\nPRIORITY: This quarter is retention-focused. ..."
          [] k = "cost_reduction" -> "\nPRIORITY: Minimise refund approvals. ..."
          [] OTHER -> "\nPRIORITY: Maximise upsell opportunities. ..."]

\* the strategy_overrides argument: not given, or a dict
NoOverrides == [given |-> FALSE]

Overrides(d) == [given |-> TRUE, d |-> d]

StrategyOverrides ==
    {NoOverrides, Overrides(EmptyDict)}
    \cup { Overrides([k \in {key} |-> text]) :
             key \in {"custom_mode", "retention", ""},
             text \in {"\nCUSTOM INSTRUCTIONS HERE.", ""} }

BaseIntents == {"You are a support agent for Acme Corp.", "Base."}

\* session states by what they hold under org_goal and customer_tier
IntentSessionStates ==
    { [k \in ks |-> IF k = "org_goal" THEN g ELSE t] :
        ks \in SUBSET {"org_goal", "customer_tier"},
        g \in {"retention", "growth", "custom_mode", "quarterly"},
        t \in Tiers }

\* {**a, **b}: the keys of both, b's value where both have one
merged(a, b) ==
    [k \in DOMAIN a \cup DOMAIN b |-> IF k \in DOMAIN b THEN b[k] ELSE a[k]]

\* strategies = {**DEFAULT_STRATEGIES, **(strategy_overrides or {})}
strategies(strategy_overrides) ==
    merged(DEFAULT_STRATEGIES,
           IF strategy_overrides.given THEN strategy_overrides.d ELSE EmptyDict)

\* create_intent_retriever(base_intent, strategy_overrides)(session_state):
\* the string built by +=, as the sequence of its parts
create_intent_retriever(base_intent, strategy_overrides, session_state) ==
    LET table == strategies(strategy_overrides)
        org_goal == Get(session_state, "org_goal", "")
        customer_tier == Get(session_state, "customer_tier", "standard")
        tiered == <<base_intent, "\n\nThe current customer's tier is: ",
                    customer_tier, ".">>
        strategy_suffix == Get(table, org_goal, "")
    IN  IF strategy_suffix # "" THEN Append(tiered, strategy_suffix) ELSE tiered

\* an agent turn asks the retriever for its instructions
RetrieveIntent ==
    /\ \E base_intent \in BaseIntents, strategy_overrides \in StrategyOverrides,
          session_state \in IntentSessionStates :
        intent' = [active |-> TRUE, base_intent |-> base_intent,
                   strategy_overrides |-> strategy_overrides,
                   session_state |-> session_state,
                   instructions |-> create_intent_retriever(base_intent,
                                        strategy_overrides, session_state)]
    /\ UNCHANGED <<hookVars, gateVars, chain, judgeVars, cond>>

\* ------------------------------------------------------------------ main.py

\* tools=[...] of build_agent
Tools == {"stripe_refund", "send_email", "cancel_subscription", "process_chargeback"}

\* @tool(requires_confirmation=True)
requires_confirmation(tool_name) == tool_name = "process_chargeback"

ChargebackAmounts == {50, 200}

\* a requirement of the run, as handle_confirmation reads it
Requirement(id, tool_name, amount) ==
    [id |-> id,
     tool_name |-> tool_name,
     tool_args |-> [customer_id |-> "C-9012", amount |-> amount],
     confirmation |-> "pending"]

\* k fresh pending requirements, numbered from first on
NewRequirements(first, k) ==
    { [i \in 1..k |-> Requirement(first + i - 1, t[i], a[i])] :
        t \in [1..k -> {n \in Tools : requires_confirmation(n)}],
        a \in [1..k -> ChargebackAmounts] }

\* requirement.needs_confirmation
needs_confirmation(requirement) ==
    /\ requires_confirmation(requirement.tool_name)
    /\ requirement.confirmation = "pending"

\* run_response.active_requirements: positions of the unresolved requirements
RECURSIVE active_requirements(_, _)
active_requirements(requirements, i) ==
    IF i > Len(requirements) THEN <<>>
    ELSE (IF needs_confirmation(requirements[i]) THEN <<i>> ELSE <<>>)
         \o active_requirements(requirements, i + 1)

\* requirement.confirm()
confirm(requirement) ==
    IF needs_confirmation(requirement)
    THEN [requirement EXCEPT !.confirmation = "confirmed"]
    ELSE requirement

\* requirement.reject()
reject(requirement) ==
    IF needs_confirmation(requirement)
    THEN [requirement EXCEPT !.confirmation = "rejected"]
    ELSE requirement

NoResponse == [is_paused |-> FALSE, requirements |-> <<>>]

NoGate ==
    [answers |-> [id \in 1..MaxReqs |-> "none"],
     executed |-> [id \in 1..MaxReqs |-> 0],
     issued |-> 0,
     paused |-> FALSE,
     resumed |-> 0]

\* run_response = agent.run(user_input): the run completes, or pauses carrying
\* pending requirements for the gated tools it wants to call
AgentRun ==
    /\ pc = "ask"
    /\ \E paused \in BOOLEAN, k \in 0..MaxReqs :
        /\ ~paused => k = 0
        /\ \E requirements \in NewRequirements(1, k) :
            /\ run_response' = [is_paused |-> paused, requirements |-> requirements]
            /\ gate' = [NoGate EXCEPT !.issued = k, !.paused = paused]
    /\ todo' = <<>>
    /\ pc' = "handle"
    /\ UNCHANGED besideGate

\* the loop of handle_confirmation moves on to the next requirement that needs
\* confirmation and prompts for it, or leaves the loop for continue_run
LoopFrom(rest) ==
    IF rest = <<>> THEN "continue" ELSE "prompt"

\* handle_confirmation(run_response, agent) up to its first prompt
HandleConfirmation ==
    /\ pc = "handle"
    /\ IF ~run_response.is_paused
       THEN /\ pc' = "display"
            /\ todo' = <<>>
       ELSE LET active == active_requirements(run_response.requirements, 1)
            IN  /\ todo' = active
                /\ pc' = LoopFrom(active)
    /\ UNCHANGED <<run_response, gate, besideGate>>

\* variant: the branches of `if answer == "n"` are exchanged
Answer_Exchanged ==
    /\ pc = "prompt"
    /\ \E answer \in {"y", "n"} :
        LET i == Head(todo)
            requirement == run_response.requirements[i]
            resolved == IF answer = "n" THEN confirm(requirement) ELSE reject(requirement)
        IN  /\ run_response' = [run_response EXCEPT !.requirements[i] = resolved]
            /\ gate' = [gate EXCEPT !.answers[requirement.id] = answer]
    /\ todo' = Tail(todo)
    /\ pc' = LoopFrom(Tail(todo))
    /\ UNCHANGED besideGate

\* variant: continue_run sits inside the loop body, after the first answer
Answer_ResumesAtOnce ==
    /\ pc = "prompt"
    /\ \E answer \in {"y", "n"} :
        LET i == Head(todo)
            requirement == run_response.requirements[i]
            resolved == IF answer = "n" THEN reject(requirement) ELSE confirm(requirement)
        IN  /\ run_response' = [run_response EXCEPT !.requirements[i] = resolved]
            /\ gate' = [gate EXCEPT !.answers[requirement.id] = answer]
    /\ todo' = Tail(todo)
    /\ pc' = "continue"
    /\ UNCHANGED besideGate

\* the human answers the prompt; "n" rejects the requirement, anything else
\* confirms it, and the loop goes on
Answer ==
    /\ pc = "prompt"
    /\ \E answer \in {"y", "n"} :
        LET i == Head(todo)
            requirement == run_response.requirements[i]
            resolved == IF answer = "n" THEN reject(requirement) ELSE confirm(requirement)
        IN  /\ run_response' = [run_response EXCEPT !.requirements[i] = resolved]
            /\ gate' = [gate EXCEPT !.answers[requirement.id] = answer]
    /\ todo' = Tail(todo)
    /\ pc' = LoopFrom(Tail(todo))
    /\ UNCHANGED besideGate

\* how often the gated action of requirement id runs in continue_run
Executions(requirements, id) ==
    Cardinality({ i \in 1..Len(requirements) :
                    /\ requirements[i].id = id
                    /\ requirements[i].confirmation = "confirmed" })

StillPending(requirement) == requirement.confirmation = "pending"

\* run_response = agent.continue_run(run_id, requirements): the confirmed
\* requirements' actions are executed, the rejected ones are not, both are
\* discarded; the resumed run completes or pauses again on new requirements
ContinueRun ==
    /\ pc = "continue"
    /\ \E k \in 0..(MaxReqs - gate.issued) :
        \E fresh \in NewRequirements(gate.issued + 1, k) :
            LET kept == SelectSeq(run_response.requirements, StillPending)
            IN  /\ run_response' = [is_paused |-> kept \o fresh # <<>>,
                                    requirements |-> kept \o fresh]
                /\ gate' = [gate EXCEPT
                                !.executed = [id \in 1..MaxReqs |->
                                    gate.executed[id]
                                        + Executions(run_response.requirements, id)],
                                !.issued = gate.issued + k,
                                !.resumed = gate.resumed + 1]
    /\ todo' = <<>>
    /\ pc' = "display"
    /\ UNCHANGED besideGate

\* the response is shown and judged; the loop asks for the next input
Display ==
    /\ pc = "display"
    /\ pc' = "ask"
    /\ UNCHANGED <<run_response, todo, gate, besideGate>>

\* ----------------------------------------------------------------- governor.py

NoGovernor == [built |-> FALSE]

\* most times wrap() is applied to one agent
MaxWraps == 2

\* judge_threshold: int = 7
DefaultJudgeThreshold == 7

JudgeThresholds == {DefaultJudgeThreshold, 5}

\* the judge_model argument: None or a model instance
JudgeModels == {None, Some("sonar-pro")}

\* the escalation_hook argument: None or a callable
EscalationHooks == {None, Some("SlackEscalationHook")}

\* the parameters create_intent_judge declares (judge_eval.py 110-116)
create_intent_judge_params ==
    {"criteria_path", "escalation_hook", "threshold", "run_in_background", "model_id"}

\* the keywords IntentGovernor.__init__ calls it with (governor.py 93-98)
create_intent_judge_keywords ==
    {"criteria_path", "model", "escalation_hook", "threshold", "run_in_background"}

\* a call with these keywords: Python raises TypeError on a keyword the
\* function does not declare, before the body runs
create_intent_judge(keywords, model, escalation_hook, threshold, run_in_background) ==
    IF ~(keywords \subseteq create_intent_judge_params)
    THEN [raised |-> TRUE, error |-> "TypeError"]
    ELSE [raised |-> FALSE, error |-> "",
          judge |-> [model |-> model, on_fail |-> escalation_hook,
                     threshold |-> threshold, run_in_background |-> run_in_background]]

\* escalation_hook or default_escalation_hook
hook_or_default(escalation_hook) ==
    IF escalation_hook.some THEN escalation_hook.v ELSE "default_escalation_hook"

\* IntentGovernor.__init__
IntentGovernor_init(judge_model, escalation_hook, judge_threshold, judge_background) ==
    LET hook == hook_or_default(escalation_hook)
        made == create_intent_judge(create_intent_judge_keywords, judge_model.v,
                                    hook, judge_threshold, judge_background)
        fields == [escalation_hook |-> hook, judge_threshold |-> judge_threshold,
                   judge_background |-> judge_background]
    IN  IF judge_model.some
        THEN IF made.raised
             THEN [raised |-> TRUE, error |-> made.error]
             ELSE [raised |-> FALSE, error |-> "", self |-> fields, has_judge |-> TRUE,
                   judge |-> made.judge]
        ELSE [raised |-> FALSE, error |-> "", self |-> fields, has_judge |-> FALSE]

\* AgentAsJudgeEval.run(input, output) for a turn the evaluator gives `score`:
\* passed is score >= threshold, and on_fail is called once when not passed
judge_run(judge, score, scoring_raises) ==
    IF scoring_raises THEN [raised |-> TRUE, dispatched |-> <<>>]
    ELSE [raised |-> FALSE, score |-> score, passed |-> score >= judge.threshold,
          dispatched |-> IF score >= judge.threshold THEN <<>> ELSE <<judge.on_fail>>]

\* variant: the scoring call is made outside any try block
evaluate_response_NoCatch(g, score, scoring_raises) ==
    IF ~g.has_judge
    THEN [raised |-> TRUE, returned |-> "none", dispatched |-> <<>>]
    ELSE LET ran == judge_run(g.judge, score, scoring_raises)
         IN  IF ran.raised
             THEN [raised |-> TRUE, returned |-> "none", dispatched |-> <<>>]
             ELSE [raised |-> FALSE, returned |-> "result", dispatched |-> ran.dispatched]

\* IntentGovernor.evaluate_response: self._judge.run(...) inside try/except
\* Exception. With self._judge None the attribute lookup raises
\* AttributeError, which the handler catches.
evaluate_response(g, score, scoring_raises) ==
    IF ~g.has_judge
    THEN [raised |-> FALSE, returned |-> "none", dispatched |-> <<>>]
    ELSE LET ran == judge_run(g.judge, score, scoring_raises)
         IN  IF ran.raised
             THEN [raised |-> FALSE, returned |-> "none", dispatched |-> <<>>]
             ELSE [raised |-> FALSE, returned |-> "result", dispatched |-> ran.dispatched]

\* hook lists an agent can come with: tool_hooks None, empty, or the
\* caller's own hooks
ExistingHooks ==
    {None, Some(<<>>), Some(<<"h1">>), Some(<<"h1", "h2">>), Some(<<"h2", "h1">>)}

\* list(agent.tool_hooks or [])
hooks_or_empty(hooks) == IF hooks.some THEN hooks.v ELSE <<>>

\* variant: wrap assigns the two governance hooks alone
wrap_Replaces(hooks) == Some(<<"logger_hook", "constitution_hook">>)

\* IntentGovernor.wrap: the new value of agent.tool_hooks
wrap(hooks) == Some(<<"logger_hook", "constitution_hook">> \o hooks_or_empty(hooks))

NoEval == [done |-> FALSE]

NoAgent == [made |-> FALSE]

\* IntentGovernor(...): a governor, or the exception construction ends in
NewGovernor ==
    /\ \E judge_model \in JudgeModels, escalation_hook \in EscalationHooks,
          judge_threshold \in JudgeThresholds, judge_background \in BOOLEAN :
        LET made == IntentGovernor_init(judge_model, escalation_hook,
                                        judge_threshold, judge_background)
        IN  gov' = IF made.raised
                   THEN [built |-> FALSE, asked |-> TRUE, judge_model |-> judge_model,
                         error |-> made.error]
                   ELSE [built |-> TRUE, asked |-> TRUE, judge_model |-> judge_model,
                         g |-> made, agent |-> NoAgent, eval |-> NoEval]
    /\ UNCHANGED <<hookVars, gateVars, chain, esc, cond, intent>>

\* Agent(...) as the caller builds it before wrap
NewAgent ==
    /\ gov.built
    /\ \E hooks \in ExistingHooks :
        gov' = [gov EXCEPT !.agent = [made |-> TRUE, wraps |-> 0, before |-> hooks,
                                      tool_hooks |-> hooks]]
    /\ UNCHANGED <<hookVars, gateVars, chain, esc, cond, intent>>

\* governor.wrap(agent)
Wrap ==
    /\ gov.built
    /\ gov.agent.made
    /\ gov.agent.wraps < MaxWraps
    /\ gov' = [gov EXCEPT !.agent = [made |-> TRUE, wraps |-> gov.agent.wraps + 1,
                                     before |-> gov.agent.tool_hooks,
                                     tool_hooks |-> wrap(gov.agent.tool_hooks)]]
    /\ UNCHANGED <<hookVars, gateVars, chain, esc, cond, intent>>

\* governor.evaluate_response(input_text, output_text) after a turn; score is
\* what the external evaluator gives the turn, scoring_raises whether the
\* scoring call fails
EvaluateResponse ==
    /\ gov.built
    /\ \E score \in 0..MaxScore, scoring_raises \in BOOLEAN :
        gov' = [gov EXCEPT !.eval = [done |-> TRUE, score |-> score,
                                     scoring_raises |-> scoring_raises,
                                     out |-> evaluate_response(gov.g, score, scoring_raises)]]
    /\ UNCHANGED <<hookVars, gateVars, chain, esc, cond, intent>>

\* ------------------------------------------------------------ specifications

Init ==
    /\ constitution_file = Mapping(<<>>)
    /\ inv = NoInv
    /\ pc = "ask"
    /\ run_response = NoResponse
    /\ todo = <<>>
    /\ gate = NoGate
    /\ chain = NoChain
    /\ esc = NoEsc
    /\ gov = NoGovernor
    /\ cond = NoCond
    /\ intent = NoIntent

Next ==
    \/ HookCall
    \/ AppendRule
    \/ DropRule
    \/ ReplaceFile

Spec == Init /\ [][Next]_vars

ReloadNext ==
    \/ ReloadCall
    \/ ReloadEdit

ReloadSpec == Init /\ [][ReloadNext]_vars

FieldsNext ==
    \/ FieldsCall
    \/ FieldsAppend
    \/ FieldsDrop

FieldsSpec == Init /\ [][FieldsNext]_vars

IntentNext == RetrieveIntent

IntentSpec == Init /\ [][IntentNext]_vars

ChainNext ==
    \/ ChainCall
    \/ AppendRule
    \/ DropRule
    \/ ReplaceFile

ChainSpec == Init /\ [][ChainNext]_vars

CondNext == EvaluateCondition

CondSpec == Init /\ [][CondNext]_vars

GovernorNext ==
    \/ NewGovernor
    \/ NewAgent
    \/ Wrap
    \/ EvaluateResponse

GovernorSpec == Init /\ [][GovernorNext]_vars

EscalationNext ==
    \/ NewSlackHook
    \/ Escalate

EscalationSpec == Init /\ [][EscalationNext]_vars

GateNext ==
    \/ AgentRun
    \/ HandleConfirmation
    \/ Answer
    \/ ContinueRun
    \/ Display

GateSpec == Init /\ [][GateNext]_vars

\* ------------------------------------------------- properties of the hook

\* the policy file of the last call parsed to a mapping (possibly empty)
Loaded == inv.file.kind \in {"mapping", "empty"}

\* the rule list the last call's policy gives its action name
InvRules == IF Loaded THEN Get(inv.file.doc, inv.function_name, <<>>) ELSE <<>>

\* rule i's condition holds of the last call's arguments and caller
RuleMatches(i) ==
    LET rule == InvRules[i]
    IN  evaluate_condition(rule.condition, inv.session_state, inv.arguments,
            IF "threshold" \in DOMAIN rule THEN Some(rule.threshold) ELSE None)

\* the first rule whose condition matches (0: none)
FirstMatching ==
    IF \E i \in 1..Len(InvRules) : RuleMatches(i)
    THEN CHOOSE i \in 1..Len(InvRules) :
            RuleMatches(i) /\ \A j \in 1..(i - 1) : ~RuleMatches(j)
    ELSE 0

IsEnterprise ==
    /\ "customer_tier" \in DOMAIN inv.session_state
    /\ inv.session_state["customer_tier"] = "enterprise"

Blocked == inv.out.raised /\ inv.out.error = "ValueError"

ExecutedOnce ==
    /\ ~inv.out.raised
    /\ inv.out.calls = 1
    /\ inv.out.result = function_call(inv.function_name, inv.arguments)

\* C1: when the first rule whose condition matches is reject or escalate and
\* the caller's tier is not enterprise, the hook raises a block error and the
\* underlying action is not called at all.
C1_FirstMatchBlocks ==
    (/\ inv.active
     /\ Loaded
     /\ FirstMatching # 0
     /\ InvRules[FirstMatching].action \in {"reject", "escalate"}
     /\ ~IsEnterprise)
    => (Blocked /\ inv.out.calls = 0 /\ inv.out.rule = FirstMatching)

C1_Witness ==
    /\ inv.active
    /\ Loaded
    /\ FirstMatching = 2
    /\ InvRules[2].action = "escalate"
    /\ ~IsEnterprise
    /\ Blocked
    /\ inv.out.calls = 0

\* C2: for a caller of tier enterprise the underlying action executes
\* exactly once, whatever reject or escalate rules match.
C2_EnterpriseExecutesOnce ==
    (inv.active /\ Loaded /\ IsEnterprise) => ExecutedOnce

\* C3: an action name absent from the loaded rule set is approved: the
\* underlying action is called exactly once and its result is returned.
C3_UnknownNameApproved ==
    (inv.active /\ Loaded /\ inv.function_name \notin DOMAIN inv.file.doc)
    => ExecutedOnce

C3_Witness ==
    /\ inv.active
    /\ inv.file.kind = "mapping"
    /\ Len(inv.file.doc[GovernedName]) > 0
    /\ inv.file.doc[GovernedName][1].action = "reject"
    /\ inv.file.doc[GovernedName][1].condition = "any"
    /\ inv.function_name \notin DOMAIN inv.file.doc
    /\ ExecutedOnce

\* C4: first-approve-wins: when the first rule whose condition matches is
\* approve, the loop stops there and the action executes exactly once, even if
\* a later rule matches with reject or escalate.
C4_FirstApproveWins ==
    (/\ inv.active
     /\ Loaded
     /\ FirstMatching # 0
     /\ InvRules[FirstMatching].action = "approve")
    => (ExecutedOnce /\ inv.out.rule = FirstMatching)

C4_Witness ==
    /\ inv.active
    /\ Loaded
    /\ FirstMatching = 1
    /\ InvRules[1].action = "approve"
    /\ Len(InvRules) >= 2
    /\ RuleMatches(2)
    /\ InvRules[2].action \in {"reject", "escalate"}
    /\ ~IsEnterprise
    /\ ExecutedOnce

\* the first matching rule whose action is reject or escalate (0: none)
FirstMatchingBlocker ==
    LET blockers == { i \in 1..Len(InvRules) :
                        RuleMatches(i) /\ InvRules[i].action \in {"reject", "escalate"} }
    IN  IF blockers = {} THEN 0
        ELSE CHOOSE i \in blockers : \A j \in blockers : i <= j

\* C5: when the hook blocks, the error carries verbatim the reason of the rule
\* that caused the block, and that rule is the first matching reject/escalate
\* rule in list order.
C5_BlockCarriesFirstBlockerReason ==
    (inv.active /\ Blocked)
    => (/\ FirstMatchingBlocker # 0
        /\ inv.out.rule = FirstMatchingBlocker
        /\ inv.out.text[2] = inv.function_name
        /\ inv.out.text[4] = InvRules[FirstMatchingBlocker].reason)

Resumed == gate.resumed > 0

\* C7: while a requirement is pending its gated action is not executed; once
\* the human has approved it and the run is resumed the action has executed
\* exactly once; a requirement the human rejected is never executed.
C7_ConfirmationGate ==
    /\ \A i \in 1..Len(run_response.requirements) :
            run_response.requirements[i].confirmation = "pending"
                => gate.executed[run_response.requirements[i].id] = 0
    /\ \A id \in 1..MaxReqs :
        /\ gate.answers[id] = "none" => gate.executed[id] = 0
        /\ gate.answers[id] = "n" => gate.executed[id] = 0
        /\ gate.answers[id] = "y" => gate.executed[id] = (IF Resumed THEN 1 ELSE 0)

C7_Witness ==
    /\ pc = "display"
    /\ Resumed
    /\ gate.answers[1] = "y" /\ gate.executed[1] = 1
    /\ gate.answers[2] = "n" /\ gate.executed[2] = 0
    /\ run_response.is_paused
    /\ run_response.requirements[1].confirmation = "pending"

\* C9: when handle_confirmation calls continue_run no requirement of the run
\* is still pending, and continue_run is called exactly once for a paused
\* response and not at all for one that is not paused.
C9_ResolvedBeforeResume ==
    /\ pc = "continue" =>
            \A i \in 1..Len(run_response.requirements) :
                run_response.requirements[i].confirmation \in {"confirmed", "rejected"}
    /\ pc \in {"handle", "prompt", "continue"} => gate.resumed = 0
    /\ pc \in {"display", "ask"} => gate.resumed = (IF gate.paused THEN 1 ELSE 0)

C9_Witness ==
    /\ pc = "continue"
    /\ Len(run_response.requirements) = 2
    /\ run_response.requirements[1].confirmation = "rejected"
    /\ run_response.requirements[2].confirmation = "confirmed"


\* ------------------------------------------------- properties of the hook chain

ChainTrace == chain.out.trace

CountEv(ev) == Cardinality({ i \in 1..Len(ChainTrace) : ChainTrace[i].ev = ev })

\* the policy stage raised before the action was reached
PolicyBlocked == chain.active /\ chain.policy.raised

\* the stage inside logger_hook returned a result
InnerReturns == chain.active /\ ~chain.policy.raised /\ ~chain.action_raises

\* the policy stage let the call through and the action raised
ActionRaised == chain.active /\ ~chain.policy.raised /\ chain.action_raises

\* C11: whenever the stage inside logger_hook returns, the chain's trace holds
\* exactly one start record and exactly one end record, the inner stage is
\* entered exactly once, the start record comes before that entry and the end
\* record after everything the inner stage did.
C11_OneStartOneEndAroundOneCall ==
    InnerReturns =>
        /\ CountEv("audit_start") = 1
        /\ CountEv("audit_end") = 1
        /\ CountEv("policy") = 1
        /\ ChainTrace[1].ev = "audit_start"
        /\ ChainTrace[2].ev = "policy"
        /\ ChainTrace[Len(ChainTrace)].ev = "audit_end"
        /\ ~chain.out.raised

C11_Witness ==
    /\ InnerReturns
    /\ chain.function_name = GovernedName
    /\ chain.policy.rule > 0
    /\ CountEv("audit_end") = 1

\* C12: whenever the governed action raises, the end record is still emitted
\* and the action's exception reaches the caller of the chain.
C12_EndRecordOnActionError ==
    ActionRaised =>
        /\ CountEv("audit_end") = 1
        /\ chain.out.raised
        /\ chain.out.error = "ActionError"

\* C13: with logger_hook outermost, a call the policy stage stops before the
\* action leaves exactly one audit record, the start record; a call that is
\* let through and whose action returns leaves one start and one end record.
C13_BlockedOneRecordSuccessTwo ==
    /\ PolicyBlocked =>
        /\ CountEv("audit_start") = 1
        /\ CountEv("audit_end") = 0
        /\ CountEv("action") = 0
    /\ InnerReturns =>
        /\ CountEv("audit_start") = 1
        /\ CountEv("audit_end") = 1

C13_Witness ==
    /\ PolicyBlocked
    /\ chain.policy.error = "ValueError"
    /\ chain.policy.text[1] = "[Intent Block] "
    /\ CountEv("audit_start") = 1

\* C14: in every audit record that carries arguments the keys are those of the
\* call, the values of password, token and secret are the marker "***", and
\* every other key has the value it was called with; the first thing the
\* chain does is emit such a record.
C14_SensitiveValuesRedacted ==
    chain.active =>
        /\ ChainTrace[1].ev = "audit_start"
        /\ \A i \in 1..Len(ChainTrace) :
            ChainTrace[i].ev = "audit_start" =>
                /\ DOMAIN ChainTrace[i].args = DOMAIN chain.arguments
                /\ \A k \in DOMAIN chain.arguments :
                    IF k \in {"password", "token", "secret"}
                    THEN ChainTrace[i].args[k] = Str("***")
                    ELSE ChainTrace[i].args[k] = chain.arguments[k]
        /\ \A i \in 1..Len(ChainTrace) :
            ChainTrace[i].ev = "audit_end" =>
                DOMAIN ChainTrace[i].args \cap {"password", "token", "secret"} = {}

C14_Witness ==
    /\ chain.active
    /\ {"password", "token", "secret", "note"} \subseteq DOMAIN chain.arguments
    /\ chain.arguments["password"] = Str("hunter2")
    /\ ChainTrace[1].args["password"] = Str("***")
    /\ ChainTrace[1].args["note"] = chain.arguments["note"]
    /\ CountEv("audit_end") = 1


\* C19: per call through the chain, logger_hook enters the policy stage
\* exactly once, the policy stage calls the action exactly once unless it
\* raised before the call and then not at all, and so the action runs at most
\* once, also when it raises.
C19_EachStageCallsNextOnce ==
    chain.active =>
        /\ CountEv("policy") = 1
        /\ CountEv("action") = (IF chain.policy.raised THEN 0 ELSE 1)
        /\ chain.policy.calls = CountEv("action")
        /\ CountEv("action") <= 1

C19_Witness ==
    /\ ActionRaised
    /\ chain.out.raised
    /\ CountEv("action") = 1


\* -------------------------------------------------- properties of the escalation hook

\* C15: every call of the Slack escalation hook returns without an exception
\* and with exactly one notification sent: the webhook POST if a webhook URL
\* is configured and the POST succeeded, the local notification otherwise.
C15_ExactlyOneNotificationPath ==
    (esc.active /\ esc.called) =>
        /\ ~esc.out.raised
        /\ Len(esc.out.fired) = 1
        /\ esc.out.fired[1].path =
             (IF (Truthy(esc.arg) \/ Truthy(esc.env)) /\ esc.post = "ok"
              THEN "webhook" ELSE "local")

C15_Witness ==
    /\ esc.active
    /\ esc.called
    /\ Truthy(esc.env)
    /\ ~Truthy(esc.arg)
    /\ esc.post = "timeout"
    /\ esc.out.fired[1].path = "local"

\* --------------------------------------------- properties of the conditions

\* the amount the condition is about: the argument as a number, 0 when it is
\* absent or not a number
StatedAmount ==
    IF "amount" \notin DOMAIN cond.arguments THEN 0
    ELSE IF cond.arguments["amount"].py = "number" THEN cond.arguments["amount"].n
    ELSE IF cond.arguments["amount"].py = "str" /\ cond.arguments["amount"].s = "500" THEN 500
    ELSE 0

StatedTenure ==
    IF "customer_tenure_days" \in DOMAIN cond.session_state
    THEN cond.session_state["customer_tenure_days"] ELSE 0

\* the threshold compared against: the rule's own whenever it gives one
StatedThreshold(default) ==
    IF cond.threshold.some THEN cond.threshold.v ELSE default

\* C20: high_value holds exactly when the amount is at least the rule's
\* threshold and high_tenure exactly when the tenure days are, where 100 and
\* 730 stand in only for a rule that gives no threshold; a threshold of 0 is
\* compared against as 0.
C20_ThresholdGivenIsCompared ==
    cond.active =>
        /\ cond.condition = "high_value" =>
            (cond.matched <=> StatedAmount >= StatedThreshold(100))
        /\ cond.condition = "high_tenure" =>
            (cond.matched <=> StatedTenure >= StatedThreshold(730))

\* ----------------------------------------------- properties of the governor

Evaluated == gov.built /\ gov.eval.done

\* C16: after evaluate_response for a turn the evaluator scores below the
\* governor's threshold exactly one escalation has been dispatched, to the
\* governor's escalation hook; for a score at or above it, none.
C16_BelowThresholdEscalatesOnce ==
    (Evaluated /\ ~gov.eval.scoring_raises) =>
        gov.eval.out.dispatched =
            (IF gov.eval.score < gov.g.self.judge_threshold
             THEN <<gov.g.self.escalation_hook>> ELSE <<>>)

\* C17: evaluate_response never ends in an exception; when the scoring call
\* fails, or there is no judge to call, it returns None.
C17_EvaluateNeverRaises ==
    Evaluated =>
        /\ ~gov.eval.out.raised
        /\ (gov.eval.scoring_raises \/ ~gov.g.has_judge) => gov.eval.out.returned = "none"

C17_Witness ==
    /\ Evaluated
    /\ ~gov.g.has_judge
    /\ ~gov.eval.out.raised
    /\ gov.eval.out.returned = "none"

OutcomeWith(rules) ==
    intent_constitution_hook([kind |-> "mapping",
                              doc |-> [n \in {inv.function_name} |-> rules]],
                             inv.session_state, inv.function_name, inv.arguments)

\* two calls end alike: same exception or same result, same number of
\* executions of the action
SameOutcome(a, b) ==
    /\ a.raised = b.raised
    /\ a.error = b.error
    /\ a.text = b.text
    /\ a.calls = b.calls
    /\ a.result = b.result

HasKnownCondition(rule) ==
    Get(rule, "condition", "any") \in {"any", "high_value", "high_tenure"}

\* C21: a rule whose condition name is not known is never the rule the loop
\* is left at; the call ends as it would with every such rule taken out of
\* the list; and when no rule of the list has a known condition the action
\* executes exactly once.
C21_UnknownConditionNeverMatches ==
    (inv.active /\ Loaded) =>
        /\ inv.out.rule # 0 => HasKnownCondition(InvRules[inv.out.rule])
        /\ SameOutcome(inv.out, OutcomeWith(SelectSeq(InvRules, HasKnownCondition)))
        /\ (\A i \in 1..Len(InvRules) : ~HasKnownCondition(InvRules[i])) => ExecutedOnce

C21_Witness ==
    /\ inv.active
    /\ Loaded
    /\ Len(InvRules) = 2
    /\ InvRules[1].condition = "vip"
    /\ InvRules[1].action = "reject"
    /\ InvRules[2].condition = "vip"
    /\ InvRules[2].action = "escalate"
    /\ ~IsEnterprise
    /\ ExecutedOnce


StatedStrategies ==
    LET over == IF intent.strategy_overrides.given
                THEN intent.strategy_overrides.d ELSE EmptyDict
    IN  [k \in DOMAIN DEFAULT_STRATEGIES \cup DOMAIN over |->
            IF k \in DOMAIN over THEN over[k] ELSE DEFAULT_STRATEGIES[k]]

\* base intent, then the sentence naming the tier
StatedHead ==
    <<intent.base_intent, "\n\nThe current customer's tier is: ",
      IF "customer_tier" \in DOMAIN intent.session_state
      THEN intent.session_state["customer_tier"] ELSE "standard",
      ".">>

\* C23: the instructions are the base intent, the tier sentence (standard
\* when the session names no tier) and then the suffix the merged strategies
\* give the session's org_goal; when the session has no org_goal, or one the
\* merged strategies do not list, nothing follows the tier sentence.
C23_InstructionsByGoalAndTier ==
    intent.active =>
        intent.instructions =
            (IF /\ "org_goal" \in DOMAIN intent.session_state
                /\ intent.session_state["org_goal"] \in DOMAIN StatedStrategies
                /\ StatedStrategies[intent.session_state["org_goal"]] # ""
             THEN Append(StatedHead, StatedStrategies[intent.session_state["org_goal"]])
             ELSE StatedHead)


\* ------------------------------------------- properties of the pass-through

\* C24: the policy stage and the action are each handed the argument mapping
\* the chain was called with, sensitive values included; when the policy
\* stage does not raise it calls the action once with that mapping and
\* returns the action's result, and logger_hook returns that same result.
C24_ArgumentsAndResultPassThrough ==
    chain.active =>
        /\ \A i \in 1..Len(ChainTrace) :
            ChainTrace[i].ev \in {"policy", "action"} =>
                ChainTrace[i].args = chain.arguments
        /\ ~chain.policy.raised =>
            /\ chain.policy.calls = 1
            /\ chain.policy.result = function_call(chain.function_name, chain.arguments)
        /\ InnerReturns =>
            /\ ~chain.out.raised
            /\ chain.out.result = function_call(chain.function_name, chain.arguments)

C24_Witness ==
    /\ InnerReturns
    /\ chain.function_name = GovernedName
    /\ "secret" \in DOMAIN chain.arguments
    /\ chain.out.result.args["secret"] = Str("s3cr3t")
    /\ ChainTrace[1].args["secret"] = Str("***")
    /\ ChainTrace[3].ev = "action"


\* ----------------------------------- properties of construction and wrap

Constructed == "asked" \in DOMAIN gov

\* C25: constructing the governor with a judge model succeeds and gives it a
\* judge that evaluates with that model and has the governor's threshold,
\* background flag and escalation hook; constructing it without one gives it
\* no judge.
C25_JudgeBuiltFromJudgeModel ==
    Constructed =>
        /\ gov.built
        /\ gov.judge_model.some =>
            /\ gov.g.has_judge
            /\ gov.g.judge.model = gov.judge_model.v
            /\ gov.g.judge.threshold = gov.g.self.judge_threshold
            /\ gov.g.judge.run_in_background = gov.g.self.judge_background
            /\ gov.g.judge.on_fail = gov.g.self.escalation_hook
        /\ ~gov.judge_model.some => ~gov.g.has_judge

\* how often a hook stands in the agent's hook list
TimesInChain(hook) ==
    Cardinality({ i \in 1..Len(gov.agent.tool_hooks.v) : gov.agent.tool_hooks.v[i] = hook })

\* C27: however often wrap has been applied to the agent, its hook list
\* holds logger_hook once and the constitution hook once.
C27_WrapIdempotent ==
    (gov.built /\ gov.agent.made /\ gov.agent.wraps >= 1) =>
        /\ TimesInChain("logger_hook") = 1
        /\ TimesInChain("constitution_hook") = 1

\* ------------------------------------------ properties of the turn's end

\* C26: when the turn's response is displayed and judged, after
\* handle_confirmation has returned, the run is not paused and every
\* requirement raised in the turn, before or after the resume, has been put
\* to the human and is no longer pending.
C26_NothingPendingAtDisplay ==
    pc = "display" =>
        /\ ~run_response.is_paused
        /\ \A i \in 1..Len(run_response.requirements) :
            run_response.requirements[i].confirmation # "pending"
        /\ \A id \in 1..gate.issued : gate.answers[id] # "none"


\* ------------------------------------------- properties of the tier bypass

\* a matching approve rule stands before rule i
ApprovedBefore(i) ==
    \E j \in 1..(i - 1) : RuleMatches(j) /\ InvRules[j].action = "approve"

\* C28: a caller whose session state is absent, empty or names no tier is
\* treated as standard: an absent session state is read as an empty one, and
\* when a reject or escalate rule matches with no matching approve rule
\* before it, the call is blocked and the action is not executed.
C28_NoTierIsStandard ==
    (inv.active /\ "run_context" \in DOMAIN inv) =>
        /\ inv.run_context.absent => inv.session_state = EmptyDict
        /\ (/\ Loaded
            /\ "customer_tier" \notin DOMAIN inv.session_state
            /\ FirstMatchingBlocker # 0
            /\ ~ApprovedBefore(FirstMatchingBlocker))
           => (Blocked /\ inv.out.calls = 0)

C28_Witness ==
    /\ inv.active
    /\ "run_context" \in DOMAIN inv
    /\ inv.run_context.absent
    /\ Loaded
    /\ FirstMatchingBlocker = 1
    /\ InvRules[1].action = "reject"
    /\ Blocked
    /\ inv.out.calls = 0


\* ------------------------------------- properties of the rules' defaults

HasKnownAction(rule) ==
    Get(rule, "action", "approve") \in {"approve", "reject", "escalate"}

\* the rule with the keys it leaves out written out
Filled(rule) ==
    [k \in DOMAIN rule \cup {"condition", "action"} |->
        IF k \in DOMAIN rule THEN rule[k]
        ELSE IF k = "condition" THEN "any" ELSE "approve"]

FilledRules == [i \in 1..Len(InvRules) |-> Filled(InvRules[i])]

\* C29: a matching rule whose action is none of approve, reject and escalate
\* neither blocks the call nor ends the walk through the list: the call ends
\* as it would with every such rule taken out.  A rule without an action acts
\* as an approve rule and a rule without a condition acts as one whose
\* condition is any.
C29_OtherActionsSkippedDefaultsApplied ==
    (inv.active /\ Loaded) =>
        /\ inv.out.rule # 0 => HasKnownAction(InvRules[inv.out.rule])
        /\ SameOutcome(inv.out, OutcomeWith(SelectSeq(InvRules, HasKnownAction)))
        /\ SameOutcome(inv.out, OutcomeWith(FilledRules))
        /\ inv.out.rule = OutcomeWith(FilledRules).rule
        /\ (/\ Len(InvRules) > 0
            /\ "action" \notin DOMAIN InvRules[1]
            /\ Get(InvRules[1], "condition", "any") = "any")
           => (ExecutedOnce /\ inv.out.rule = 1)
        /\ (/\ Len(InvRules) > 0
            /\ "condition" \notin DOMAIN InvRules[1]
            /\ Get(InvRules[1], "action", "approve") = "reject"
            /\ ~IsEnterprise)
           => (Blocked /\ inv.out.rule = 1)

C29_Witness ==
    /\ inv.active
    /\ Loaded
    /\ Len(InvRules) = 2
    /\ DOMAIN InvRules[1] = {"action", "reason"}
    /\ InvRules[1].action = "notify"
    /\ DOMAIN InvRules[2] = {"action", "reason"}
    /\ InvRules[2].action = "reject"
    /\ ~IsEnterprise
    /\ Blocked
    /\ inv.out.rule = 2
    /\ inv.out.calls = 0


\* --------------------------------------- properties of the empty document

\* C30: a policy file that is an empty document is no load error: whatever
\* the action name, the caller and the arguments, no rule is consulted and
\* the action executes exactly once, its result returned.
C30_EmptyDocumentApprovesAll ==
    /\ ~load_constitution(EmptyFile).raised
    /\ load_constitution(EmptyFile).isdict
    /\ (inv.active /\ inv.file = EmptyFile) =>
            (ExecutedOnce /\ inv.out.rule = 0 /\ inv.out.error = "")

C30_Witness ==
    /\ inv.active
    /\ inv.file = EmptyFile
    /\ inv.function_name = GovernedName
    /\ ~IsEnterprise
    /\ ExecutedOnce

====
